---------------------------- MODULE Spec2Model ----------------------------
(***************************************************************************)
(* A model of two notebooks of the samples repository.                     *)
(*                                                                         *)
(*  - agent-sales-analyst.ipynb: one top-to-bottom execution of the        *)
(*    notebook in a fresh kernel.  pc is the cell about to run; an         *)
(*    exception that escapes a cell stops the execution (pc = "error").    *)
(*    The project (the cloud side) is modelled by the resources it holds;  *)
(*    every remote call either succeeds with its documented effect or      *)
(*    raises with no effect.  The notebook is the only client.             *)
(*                                                                         *)
(*  - evaluate_with_various_inputs.ipynb: the evaluator functions, as      *)
(*    operators applied to bounded inputs.  Python's float quotients are   *)
(*    modelled as exact fractions in lowest terms.                         *)
(***************************************************************************)
EXTENDS Integers, Naturals, Sequences, FiniteSets, TLC

VARIABLES
    pc,                  \* the cell about to run, or "done" / "error"
    exc,                 \* the exception that escaped a cell, or "none"
    env,                 \* the process environment after load_dotenv()
    locals,              \* the kernel's names: 0 = unbound, else the bound id
    run_status,          \* run.status once run is bound
    localDir,            \* the files of data/uploads
    markdown_file_paths, \* the list of that name
    uploaded_file_ids,   \* the list of that name
    dirLeft,             \* upload loop: entries of os.listdir not yet visited
    cur,                 \* upload loop: the local file being processed
    pending,             \* upload loop: listed cloud files not yet compared
    delIdx,              \* cleanup loop: how many ids have been visited
    cloudFiles,          \* project: files, as [id, filename]
    cloudVectorStores,   \* project: vector stores, as [id, file_ids]
    cloudAgents,         \* project: agent ids
    cloudThreads,        \* project: thread ids
    cloudMessages,       \* project: messages, as [id, thread, role]
    nextId,              \* the next id the service hands out
    log,                 \* every remote call issued, in order
    printed,             \* what the cells printed (by tag)
    evalArgs,            \* the evaluator's last arguments
    evalOut              \* the evaluator's last outcome

nbVars == <<pc, exc, env, locals, run_status, localDir, markdown_file_paths,
            uploaded_file_ids, dirLeft, cur, pending, delIdx, cloudFiles,
            cloudVectorStores, cloudAgents, cloudThreads, cloudMessages, nextId,
            log, printed>>
evVars == <<evalArgs, evalOut>>
vars == <<nbVars, evVars>>

---------------------------------------------------------------------------
(* Bounds *)

\* how many of the workbooks of sales_order_files the model carries
NumSalesOrders == 1
\* how many cloud files earlier or interrupted runs may have left behind
MaxLeftover == 2
\* the longest query, response or turn content
MaxStrLen == 2
\* the longest conversation, in turns
MaxTurns == 4

---------------------------------------------------------------------------
(* Files and names *)

\* A file name: stem i stands for "SalesOrder_<i>", stem 0 for any other stem.
FileName(stem, ext) == [stem |-> stem, ext |-> ext]
NoFile == FileName(-1, "")

\* local_file.endswith(".md")
EndsWithMd(f) == f.ext = ".md"

\* sales_order_files, already holding the stems Path(curr_file).stem returns
sales_order_files == [i \in 1..NumSalesOrders |-> FileName(i, ".xlsx")]

\* f"{base_name}.md"
OutputFile(curr_file) == FileName(curr_file.stem, ".md")

\* what may lie in data/uploads before the run: a Markdown file of an earlier
\* run and a file that is no Markdown file
OldLocalFiles == {FileName(0, ".md"), FileName(0, ".txt")}

\* the names a cloud file left behind may carry
LeftoverNames == {OutputFile(sales_order_files[i]) : i \in 1..NumSalesOrders}
                     \cup OldLocalFiles

\* the projects earlier runs may have left: any set of files with distinct ids
LeftoverProjects ==
    UNION {{ {[id |-> i, filename |-> g[i]] : i \in ids} : g \in [ids -> LeftoverNames]}
           : ids \in SUBSET (1..MaxLeftover)}

\* os.getenv of a variable: unset (None), empty, or a value
EnvValues == {"<None>", "", "value"}
\* a check that tests only for None
TruthyNotNone(v) == v # "<None>"

\* Python truthiness of os.getenv's result
Truthy(v) == v \notin {"<None>", ""}

LocalNames == {"project_client", "agent_client", "vector_store", "file_search",
               "agent", "thread", "message", "run"}

\* one remote call: the method, its file or id argument (NoFile, 0 when it takes
\* none), whether it returned, and the id of what it created (0 when nothing)
Call(op, file, id, ok, res) ==
    [op |-> op, file |-> file, id |-> id, ok |-> ok, res |-> res]

Bound(name) == locals[name] # 0
Bind(name, v) == [locals EXCEPT ![name] = v]

\* the cell that runs after `cell` returns
NextCell(cell) ==
    CASE cell = "env_check"      -> "project_client"
      [] cell = "project_client" -> "agent_client"
      [] cell = "agent_client"   -> "convert"
      [] cell = "convert"        -> "upload"
      [] cell = "upload"         -> "vector_store"
      [] cell = "vector_store"   -> "file_search"
      [] cell = "file_search"    -> "create_agent"
      [] cell = "create_agent"   -> "create_thread"
      [] cell = "create_thread"  -> "create_message"
      [] cell = "create_message" -> "run"
      [] cell = "run"            -> "run_status"
      [] cell = "run_status"     -> "list_messages"
      [] cell = "list_messages"  -> "delete_vector_store"
      [] cell = "delete_vector_store" -> "delete_files"
      [] cell = "delete_files"   -> "delete_agent"
      [] cell = "delete_agent"   -> "delete_local"
      [] cell = "delete_local"   -> "done"

\* an exception escapes the cell: the execution stops
Raise(e) == pc' = "error" /\ exc' = e
\* the cell returns
Return(cell) == pc' = NextCell(cell) /\ exc' = exc

uploadVars == <<dirLeft, cur, pending>>
cloudVars == <<cloudFiles, cloudVectorStores, cloudAgents, cloudThreads,
               cloudMessages, nextId>>
diskVars == <<localDir, markdown_file_paths>>

---------------------------------------------------------------------------
(* The state after construction *)

\* Optional[...]: None, or a value
None == <<>>
Some(x) == <<x>>
Get(o) == o[1]

\* no call of the evaluator yet
InitEval ==
    /\ evalArgs = [query |-> None, response |-> None, conversation |-> None]
    /\ evalOut = [kind |-> "idle"]

InitNotebook ==
    /\ pc = "env_check"
    /\ exc = "none"
    /\ env \in [{"PROJECT_CONNECTION_STRING", "AZURE_OPENAI_DEPLOYMENT"} -> EnvValues]
    /\ locals = [n \in LocalNames |-> 0]
    /\ run_status = "none"
    /\ localDir \in SUBSET OldLocalFiles
    /\ markdown_file_paths = <<>>
    /\ uploaded_file_ids = <<>>
    /\ dirLeft = {}
    /\ cur = NoFile
    /\ pending = {}
    /\ delIdx = 0
    /\ cloudFiles \in LeftoverProjects
    /\ cloudVectorStores = {}
    /\ cloudAgents = {}
    /\ cloudThreads = {}
    /\ cloudMessages = {}
    /\ nextId = MaxLeftover + 1
    /\ log = <<>>
    /\ printed = {}

Init == InitNotebook /\ InitEval

---------------------------------------------------------------------------
(* agent-sales-analyst.ipynb, cell by cell *)

\* Load and verify the environment variables
EnvCheck ==
    /\ pc = "env_check"
    /\ IF Truthy(env["PROJECT_CONNECTION_STRING"]) /\ Truthy(env["AZURE_OPENAI_DEPLOYMENT"])
       THEN Return("env_check") /\ printed' = printed \cup {"env_loaded"}
       ELSE Raise("EnvironmentError") /\ printed' = printed
    /\ UNCHANGED <<env, locals, run_status, diskVars, uploaded_file_ids, uploadVars,
                   delIdx, cloudVars, log, evVars>>

\* AIProjectClient.from_connection_string, inside try/except Exception
ProjectClient ==
    /\ pc = "project_client"
    /\ \E ok \in BOOLEAN :
         IF ok THEN /\ locals' = Bind("project_client", 1)
                    /\ printed' = printed \cup {"client_created"}
               ELSE /\ locals' = locals
                    /\ printed' = printed \cup {"error_creating_client"}
    /\ Return("project_client")
    /\ UNCHANGED <<env, run_status, diskVars, uploaded_file_ids, uploadVars,
                   delIdx, cloudVars, log, evVars>>

\* agent_client = project_client.agents
AgentClient ==
    /\ pc = "agent_client"
    /\ IF Bound("project_client")
       THEN Return("agent_client") /\ locals' = Bind("agent_client", 1)
       ELSE Raise("NameError") /\ locals' = locals
    /\ UNCHANGED <<env, run_status, diskVars, uploaded_file_ids, uploadVars,
                   delIdx, cloudVars, log, printed, evVars>>


\* what one workbook's loop body may do: write the Markdown file; fail before
\* markdown_file_paths.append (the file is missing or unreadable); or fail
\* after the append, opening the output file
ConvertOutcomes == [1..NumSalesOrders -> {"written", "skipped", "unwritten"}]

\* markdown_file_paths after the loop: one path per workbook that reached the
\* append, in the order of sales_order_files
AppendedPaths(o) ==
    LET kept == SelectSeq([i \in 1..NumSalesOrders |-> i], LAMBDA i : o[i] # "skipped")
    IN  [k \in 1..Len(kept) |-> OutputFile(sales_order_files[kept[k]])]

\* Step 1: Convert Excel files to Markdown (every exception is caught and printed)
Convert ==
    /\ pc = "convert"
    /\ \E o \in ConvertOutcomes :
         /\ markdown_file_paths' = AppendedPaths(o)
         /\ localDir' = localDir \cup
               {OutputFile(sales_order_files[i]) : i \in {j \in 1..NumSalesOrders : o[j] = "written"}}
    /\ Return("convert")
    /\ UNCHANGED <<env, locals, run_status, uploaded_file_ids, uploadVars,
                   delIdx, cloudVars, log, printed, evVars>>

\* Step 2, before the loop: uploaded_file_ids = [] and os.listdir(output_dir_path)
UploadBegin ==
    /\ pc = "upload"
    /\ pc' = "upload_loop"
    /\ uploaded_file_ids' = <<>>
    /\ dirLeft' = localDir
    /\ UNCHANGED <<exc, env, locals, run_status, diskVars, cur, pending,
                   delIdx, cloudVars, log, printed, evVars>>

\* an entry that is no Markdown file: continue
UploadSkip ==
    /\ pc = "upload_loop" /\ cur = NoFile
    /\ \E f \in dirLeft :
         /\ ~EndsWithMd(f)
         /\ dirLeft' = dirLeft \ {f}
    /\ UNCHANGED <<pc, exc, env, locals, run_status, diskVars, uploaded_file_ids,
                   cur, pending, delIdx, cloudVars, log, printed, evVars>>

\* an inner loop that stops at the first file of the same name
ExistingCopiesFirstOnly(listing, local_file) ==
    LET same == {c \in listing : c.filename = local_file}
    IN  IF same = {} THEN {} ELSE {CHOOSE c \in same : \A d \in same : c.id <= d.id}

\* the cloud files the inner loop deletes: those of the listing whose filename
\* equals local_file
ExistingCopies(listing, local_file) == {c \in listing : c.filename = local_file}

\* a Markdown entry: agent_client.list_files().data
UploadList ==
    /\ pc = "upload_loop" /\ cur = NoFile
    /\ \E f \in dirLeft, ok \in BOOLEAN :
         /\ EndsWithMd(f)
         /\ log' = Append(log, Call("list_files", NoFile, 0, ok, 0))
         /\ IF ok THEN /\ cur' = f
                       /\ pending' = ExistingCopies(cloudFiles, f)
                       /\ dirLeft' = dirLeft \ {f}
                       /\ UNCHANGED <<pc, exc>>
                  ELSE /\ Raise("HttpResponseError")
                       /\ UNCHANGED <<cur, pending, dirLeft>>
    /\ UNCHANGED <<env, locals, run_status, diskVars, uploaded_file_ids,
                   delIdx, cloudVars, printed, evVars>>

\* agent_client.delete_file(cloud_file.id) for a listed file of the same name
UploadDeleteExisting ==
    /\ pc = "upload_loop" /\ cur # NoFile
    /\ \E c \in pending, ok \in BOOLEAN :
         /\ log' = Append(log, Call("delete_file", NoFile, c.id, ok, 0))
         /\ IF ok THEN /\ cloudFiles' = cloudFiles \ {c}
                       /\ pending' = pending \ {c}
                       /\ printed' = printed \cup {"deleted_existing"}
                       /\ UNCHANGED <<pc, exc>>
                  ELSE /\ Raise("HttpResponseError")
                       /\ UNCHANGED <<cloudFiles, pending, printed>>
    /\ UNCHANGED <<env, locals, run_status, diskVars, uploaded_file_ids, dirLeft, cur,
                   delIdx, cloudVectorStores, cloudAgents, cloudThreads, cloudMessages,
                   nextId, evVars>>

\* an upload whose id is not kept
RecordUploadDropped(ids, id) == ids

\* uploaded_file_ids.append(file.id)
RecordUpload(ids, id) == Append(ids, id)

\* file = project_client.agents.upload_file_and_poll(file_path=local_file_path, ...)
UploadSend ==
    /\ pc = "upload_loop" /\ cur # NoFile /\ pending = {}
    /\ \E ok \in BOOLEAN :
         /\ log' = Append(log, Call("upload_file_and_poll", cur, 0, ok, IF ok THEN nextId ELSE 0))
         /\ IF ok THEN /\ cloudFiles' = cloudFiles \cup {[id |-> nextId, filename |-> cur]}
                       /\ nextId' = nextId + 1
                       /\ uploaded_file_ids' = RecordUpload(uploaded_file_ids, nextId)
                       /\ cur' = NoFile
                       /\ UNCHANGED <<pc, exc>>
                  ELSE /\ Raise("HttpResponseError")
                       /\ UNCHANGED <<cloudFiles, nextId, uploaded_file_ids, cur>>
    /\ UNCHANGED <<env, locals, run_status, diskVars, dirLeft, pending,
                   delIdx, cloudVectorStores, cloudAgents, cloudThreads, cloudMessages,
                   printed, evVars>>

\* the loop is over: print(f"File IDs: {uploaded_file_ids}")
UploadEnd ==
    /\ pc = "upload_loop" /\ cur = NoFile /\ dirLeft = {}
    /\ Return("upload")
    /\ printed' = printed \cup {"file_ids"}
    /\ UNCHANGED <<env, locals, run_status, diskVars, uploaded_file_ids, uploadVars,
                   delIdx, cloudVars, log, evVars>>

\* the set of a list's elements
Range(s) == {s[i] : i \in 1..Len(s)}

\* Step 3: create_vector_store_and_poll(file_ids=uploaded_file_ids, name="Sales Orders")
CreateVectorStore ==
    /\ pc = "vector_store"
    /\ \E ok \in BOOLEAN :
         /\ log' = Append(log, Call("create_vector_store_and_poll", NoFile, 0, ok, IF ok THEN nextId ELSE 0))
         /\ IF ok THEN /\ cloudVectorStores' = cloudVectorStores \cup
                             {[id |-> nextId, file_ids |-> Range(uploaded_file_ids)]}
                       /\ nextId' = nextId + 1
                       /\ locals' = Bind("vector_store", nextId)
                       /\ printed' = printed \cup {"vector_store_created"}
                       /\ Return("vector_store")
                  ELSE /\ Raise("HttpResponseError")
                       /\ UNCHANGED <<cloudVectorStores, nextId, locals, printed>>
    /\ UNCHANGED <<env, run_status, diskVars, uploaded_file_ids, uploadVars,
                   delIdx, cloudFiles, cloudAgents, cloudThreads, cloudMessages, evVars>>

\* Step 4: file_search = FileSearchTool(vector_store_ids=[vector_store.id])
FileSearch ==
    /\ pc = "file_search"
    /\ locals' = Bind("file_search", locals["vector_store"])
    /\ printed' = printed \cup {"file_search_created"}
    /\ Return("file_search")
    /\ UNCHANGED <<env, run_status, diskVars, uploaded_file_ids, uploadVars,
                   delIdx, cloudVars, log, evVars>>


\* an except clause that runs the cell's call again
ExceptRetry(cell) == cell

\* where a cell goes once its "except Exception as e: print(...)" has run:
\* the cell returns, the next cell runs
ExceptReturn(cell) == NextCell(cell)

\* Step 1: project_client.agents.create_agent(...), inside try/except Exception
CreateAgent ==
    /\ pc = "create_agent"
    /\ \E ok \in BOOLEAN :
         /\ log' = Append(log, Call("create_agent", NoFile, 0, ok, IF ok THEN nextId ELSE 0))
         /\ IF ok THEN /\ cloudAgents' = cloudAgents \cup {nextId}
                       /\ nextId' = nextId + 1
                       /\ locals' = Bind("agent", nextId)
                       /\ printed' = printed \cup {"agent_created"}
                       /\ pc' = NextCell("create_agent")
                  ELSE /\ printed' = printed \cup {"error_creating_agent"}
                       /\ pc' = ExceptReturn("create_agent")
                       /\ UNCHANGED <<cloudAgents, nextId, locals>>
    /\ UNCHANGED <<exc, env, run_status, diskVars, uploaded_file_ids, uploadVars, delIdx,
                   cloudFiles, cloudVectorStores, cloudThreads, cloudMessages, evVars>>

\* Step 2: agent_client.create_thread(), inside try/except Exception
CreateThread ==
    /\ pc = "create_thread"
    /\ \E ok \in BOOLEAN :
         /\ log' = Append(log, Call("create_thread", NoFile, 0, ok, IF ok THEN nextId ELSE 0))
         /\ IF ok THEN /\ cloudThreads' = cloudThreads \cup {nextId}
                       /\ nextId' = nextId + 1
                       /\ locals' = Bind("thread", nextId)
                       /\ printed' = printed \cup {"thread_created"}
                       /\ pc' = NextCell("create_thread")
                  ELSE /\ printed' = printed \cup {"error_creating_thread"}
                       /\ pc' = ExceptReturn("create_thread")
                       /\ UNCHANGED <<cloudThreads, nextId, locals>>
    /\ UNCHANGED <<exc, env, run_status, diskVars, uploaded_file_ids, uploadVars, delIdx,
                   cloudFiles, cloudVectorStores, cloudAgents, cloudMessages, evVars>>

\* Step 3: agent_client.create_message(thread_id=thread.id, role="user", ...),
\* inside try/except Exception: an unbound thread is a NameError the cell catches
CreateMessage ==
    /\ pc = "create_message"
    /\ IF ~Bound("thread")
       THEN /\ printed' = printed \cup {"error_adding_question"}
            /\ pc' = ExceptReturn("create_message")
            /\ UNCHANGED <<log, cloudMessages, nextId, locals>>
       ELSE \E ok \in BOOLEAN :
            /\ log' = Append(log, Call("create_message", NoFile, 0, ok, IF ok THEN nextId ELSE 0))
            /\ IF ok THEN /\ cloudMessages' = cloudMessages \cup
                                {[id |-> nextId, thread |-> locals["thread"], role |-> "user"]}
                          /\ nextId' = nextId + 1
                          /\ locals' = Bind("message", nextId)
                          /\ printed' = printed \cup {"prompt_added"}
                          /\ pc' = NextCell("create_message")
                     ELSE /\ printed' = printed \cup {"error_adding_question"}
                          /\ pc' = ExceptReturn("create_message")
                          /\ UNCHANGED <<cloudMessages, nextId, locals>>
    /\ UNCHANGED <<exc, env, run_status, diskVars, uploaded_file_ids, uploadVars, delIdx,
                   cloudFiles, cloudVectorStores, cloudAgents, cloudThreads, evVars>>

\* the terminal statuses create_and_process_run may return
RunStatuses == {"completed", "failed", "expired"}

\* Step 4: agent_client.create_and_process_run(thread_id=thread.id, agent_id=agent.id),
\* inside try/except Exception; a completed run leaves the agent's answer in the thread
Run ==
    /\ pc = "run"
    /\ IF ~Bound("thread") \/ ~Bound("agent")
       THEN /\ printed' = printed \cup {"error_starting_run"}
            /\ pc' = ExceptReturn("run")
            /\ UNCHANGED <<log, cloudMessages, nextId, locals, run_status>>
       ELSE \E ok \in BOOLEAN, st \in RunStatuses :
            /\ log' = Append(log, Call("create_and_process_run", NoFile, 0, ok, IF ok THEN nextId ELSE 0))
            /\ IF ok THEN /\ cloudMessages' = cloudMessages \cup
                                IF st = "completed"
                                THEN {[id |-> nextId + 1, thread |-> locals["thread"],
                                       role |-> "assistant"]}
                                ELSE {}
                          /\ nextId' = nextId + 2
                          /\ locals' = Bind("run", nextId)
                          /\ run_status' = st
                          /\ printed' = printed \cup {"run_started"}
                          /\ pc' = NextCell("run")
                     ELSE /\ printed' = printed \cup {"error_starting_run"}
                          /\ pc' = ExceptReturn("run")
                          /\ UNCHANGED <<cloudMessages, nextId, locals, run_status>>
    /\ UNCHANGED <<exc, env, diskVars, uploaded_file_ids, uploadVars, delIdx,
                   cloudFiles, cloudVectorStores, cloudAgents, cloudThreads, evVars>>

\* a status check that raises for a failed run
RunStatusRaising ==
    /\ pc = "run_status"
    /\ IF ~Bound("run")
       THEN Raise("NameError") /\ printed' = printed
       ELSE IF run_status = "failed"
            THEN Raise("RuntimeError") /\ printed' = printed \cup {"run_failed"}
            ELSE Return("run_status") /\ printed' = printed
    /\ UNCHANGED <<env, locals, run_status, diskVars, uploaded_file_ids, uploadVars,
                   delIdx, cloudVars, log, evVars>>

\* if run.status == "failed": print(f"Run failed: {run.last_error}")
RunStatus ==
    /\ pc = "run_status"
    /\ IF ~Bound("run")
       THEN Raise("NameError") /\ printed' = printed
       ELSE /\ Return("run_status")
            /\ printed' = IF run_status = "failed" THEN printed \cup {"run_failed"} ELSE printed
    /\ UNCHANGED <<env, locals, run_status, diskVars, uploaded_file_ids, uploadVars,
                   delIdx, cloudVars, log, evVars>>

\* Step 5: agent_client.list_messages(thread_id=thread.id, order="asc", after=message.id)
ListMessages ==
    /\ pc = "list_messages"
    /\ IF ~Bound("thread") \/ ~Bound("message")
       THEN Raise("NameError") /\ UNCHANGED <<log, printed>>
       ELSE \E ok \in BOOLEAN :
            /\ log' = Append(log, Call("list_messages", NoFile, locals["thread"], ok, 0))
            /\ IF ok THEN Return("list_messages") /\ printed' = printed \cup {"messages"}
                     ELSE Raise("HttpResponseError") /\ printed' = printed
    /\ UNCHANGED <<env, locals, run_status, diskVars, uploaded_file_ids, uploadVars,
                   delIdx, cloudVars, evVars>>


\* Clean Up, Step 1: project_client.agents.delete_vector_store(vector_store.id)
DeleteVectorStore ==
    /\ pc = "delete_vector_store"
    /\ \E ok \in BOOLEAN :
         /\ log' = Append(log, Call("delete_vector_store", NoFile, locals["vector_store"], ok, 0))
         /\ IF ok THEN /\ cloudVectorStores' =
                             {v \in cloudVectorStores : v.id # locals["vector_store"]}
                       /\ printed' = printed \cup {"deleted_vector_store"}
                       /\ Return("delete_vector_store")
                  ELSE /\ Raise("HttpResponseError")
                       /\ UNCHANGED <<cloudVectorStores, printed>>
    /\ UNCHANGED <<env, locals, run_status, diskVars, uploaded_file_ids, uploadVars, delIdx,
                   cloudFiles, cloudAgents, cloudThreads, cloudMessages, nextId, evVars>>

\* the ids the file-deletion loop visits, in order
FilesToDelete == uploaded_file_ids

\* Clean Up, Step 2, one iteration: project_client.agents.delete_file(file_id)
DeleteFile ==
    /\ pc = "delete_files" /\ delIdx < Len(FilesToDelete)
    /\ \E ok \in BOOLEAN :
         LET file_id == FilesToDelete[delIdx + 1] IN
         /\ log' = Append(log, Call("delete_file", NoFile, file_id, ok, 0))
         /\ IF ok THEN /\ cloudFiles' = {c \in cloudFiles : c.id # file_id}
                       /\ delIdx' = delIdx + 1
                       /\ printed' = printed \cup {"deleted_file"}
                       /\ UNCHANGED <<pc, exc>>
                  ELSE /\ Raise("HttpResponseError")
                       /\ UNCHANGED <<cloudFiles, delIdx, printed>>
    /\ UNCHANGED <<env, locals, run_status, diskVars, uploaded_file_ids, uploadVars,
                   cloudVectorStores, cloudAgents, cloudThreads, cloudMessages, nextId, evVars>>

\* Clean Up, Step 2: the loop is over
DeleteFilesEnd ==
    /\ pc = "delete_files" /\ delIdx >= Len(FilesToDelete)
    /\ Return("delete_files")
    /\ UNCHANGED <<env, locals, run_status, diskVars, uploaded_file_ids, uploadVars,
                   delIdx, cloudVars, log, printed, evVars>>

\* Clean Up, Step 3: list_agents(), then delete_agent(agent.id) if the agent is listed
DeleteAgent ==
    /\ pc = "delete_agent"
    /\ \E okList \in BOOLEAN, okDelete \in BOOLEAN :
         LET listed == Append(log, Call("list_agents", NoFile, 0, okList, 0)) IN
         IF ~okList
         THEN /\ log' = listed
              /\ Raise("HttpResponseError")
              /\ UNCHANGED <<cloudAgents, printed>>
         ELSE IF locals["agent"] \in cloudAgents
              THEN /\ log' = Append(listed, Call("delete_agent", NoFile, locals["agent"], okDelete, 0))
                   /\ IF okDelete
                      THEN /\ cloudAgents' = cloudAgents \ {locals["agent"]}
                           /\ printed' = printed \cup {"deleted_agent"}
                           /\ Return("delete_agent")
                      ELSE /\ Raise("HttpResponseError")
                           /\ UNCHANGED <<cloudAgents, printed>>
              ELSE /\ log' = listed
                   /\ printed' = printed \cup {"agent_does_not_exist"}
                   /\ Return("delete_agent")
                   /\ UNCHANGED cloudAgents
    /\ UNCHANGED <<env, locals, run_status, diskVars, uploaded_file_ids, uploadVars, delIdx,
                   cloudFiles, cloudVectorStores, cloudThreads, cloudMessages, nextId, evVars>>

\* Clean Up, Step 4: Path(file_path).unlink() for each of markdown_file_paths;
\* a path whose file was never written raises FileNotFoundError
DeleteLocal ==
    /\ pc = "delete_local"
    /\ LET missing == {i \in 1..Len(markdown_file_paths) : markdown_file_paths[i] \notin localDir}
           stop == IF missing = {} THEN Len(markdown_file_paths) + 1
                   ELSE CHOOSE i \in missing : \A j \in missing : i <= j
       IN  /\ localDir' = localDir \ {markdown_file_paths[i] : i \in 1..(stop - 1)}
           /\ IF missing = {} THEN Return("delete_local") /\ printed' = printed \cup {"deleted_local"}
                              ELSE Raise("FileNotFoundError") /\ printed' = printed
    /\ UNCHANGED <<env, locals, run_status, markdown_file_paths, uploaded_file_ids,
                   uploadVars, delIdx, cloudVars, log, evVars>>

Next ==
    \/ EnvCheck \/ ProjectClient \/ AgentClient \/ Convert
    \/ UploadBegin \/ UploadSkip \/ UploadList \/ UploadDeleteExisting \/ UploadSend \/ UploadEnd
    \/ CreateVectorStore \/ FileSearch \/ CreateAgent \/ CreateThread \/ CreateMessage
    \/ Run \/ RunStatus \/ ListMessages
    \/ DeleteVectorStore \/ DeleteFile \/ DeleteFilesEnd \/ DeleteAgent \/ DeleteLocal

Spec == Init /\ [][Next]_vars


---------------------------------------------------------------------------
(* evaluate_with_various_inputs.ipynb: the evaluator *)

\* a call's outcome: it returns a value or raises an exception
Returned(v) == [kind |-> "return", value |-> v]
Raised(e) == [kind |-> "raise", exc |-> e]

RECURSIVE GCD(_, _)
GCD(a, b) == IF b = 0 THEN a ELSE GCD(b, a % b)

\* the quotient n / d (d > 0) as a fraction in lowest terms; this stands for
\* the float Python computes
Frac(n, d) == LET g == GCD(n, d) IN [num |-> n \div g, den |-> d \div g]
FracAdd(a, b) == Frac(a.num * b.den + b.num * a.den, a.den * b.den)
FracDivInt(a, k) == Frac(a.num, a.den * k)

\* a ratio computed with floor division
query_response_ratio_floor(query, response) ==
    IF Len(response) = 0 THEN Raised("ZeroDivisionError")
    ELSE Returned(Frac(Len(query) \div Len(response), 1))

\* def query_response_ratio(query, response): return len(query) / len(response)
query_response_ratio(query, response) ==
    IF Len(response) = 0 THEN Raised("ZeroDivisionError")
    ELSE Returned(Frac(Len(query), Len(response)))

\* zip(queries, responses): as long as the shorter of the two
Zip(queries, responses) ==
    LET n == IF Len(queries) <= Len(responses) THEN Len(queries) ELSE Len(responses)
    IN  [i \in 1..n |-> <<queries[i], responses[i]>>]

\* a loop that takes the user's turns for responses and the others for queries
RECURSIVE UnwrapLoopSwapped(_, _, _)
UnwrapLoopSwapped(turns, queries, responses) ==
    IF turns = <<>> THEN Zip(queries, responses)
    ELSE LET turn == Head(turns) IN
         IF turn.role = "user"
         THEN UnwrapLoopSwapped(Tail(turns), queries, Append(responses, turn.content))
         ELSE UnwrapLoopSwapped(Tail(turns), Append(queries, turn.content), responses)

\* the loop of unwrap_conversation over conversation["messages"]
RECURSIVE UnwrapLoop(_, _, _)
UnwrapLoop(turns, queries, responses) ==
    IF turns = <<>> THEN Zip(queries, responses)
    ELSE LET turn == Head(turns) IN
         IF turn.role = "user"
         THEN UnwrapLoop(Tail(turns), Append(queries, turn.content), responses)
         ELSE UnwrapLoop(Tail(turns), queries, Append(responses, turn.content))

unwrap_conversation(conversation) == UnwrapLoop(conversation.messages, <<>>, <<>>)

\* sum(per_turn_results)
RECURSIVE Sum(_)
Sum(values) == IF values = <<>> THEN Frac(0, 1) ELSE FracAdd(Sum(Tail(values)), Head(values))

\* a total that is never divided by the count
SumOnly(values) ==
    IF Len(values) = 0 THEN Raised("ZeroDivisionError")
    ELSE Returned(Sum(values))

\* sum(per_turn_results) / len(per_turn_results)
Mean(values) ==
    IF Len(values) = 0 THEN Raised("ZeroDivisionError")
    ELSE Returned(FracDivInt(Sum(values), Len(values)))

\* the conversation branch: one ratio per unwrapped pair, then their mean; the
\* first exception of the comprehension or of the division escapes
ConversationResult(conversation) ==
    LET pairs == unwrap_conversation(conversation)
        ratios == [i \in 1..Len(pairs) |-> query_response_ratio(pairs[i][1], pairs[i][2])]
    IN  IF \E i \in 1..Len(pairs) : ratios[i].kind = "raise"
        THEN Raised("ZeroDivisionError")
        ELSE LET per_turn_results == [i \in 1..Len(pairs) |-> ratios[i].value]
                 mean == Mean(per_turn_results)
             IN  IF mean.kind = "raise" THEN mean
                 ELSE Returned([result |-> mean.value,
                                per_turn_results |-> per_turn_results])

\* the query-response branch
PairResult(query, response) ==
    LET ratio == query_response_ratio(query, response)
    IN  IF ratio.kind = "raise" THEN ratio ELSE Returned([result |-> ratio.value])

\* an evaluator whose conversation branch does not look at query and response
simple_evaluator_function_lenient(query, response, conversation) ==
    IF conversation # None
    THEN ConversationResult(Get(conversation))
    ELSE IF conversation = None /\ query # None /\ response # None
    THEN PairResult(Get(query), Get(response))
    ELSE Raised("ValueError")

simple_evaluator_function(query, response, conversation) ==
    IF conversation # None /\ query = None /\ response = None
    THEN ConversationResult(Get(conversation))
    ELSE IF conversation = None /\ query # None /\ response # None
    THEN PairResult(Get(query), Get(response))
    ELSE Raised("ValueError")

\* the inputs of the model
Strings == UNION {[1..n -> {"a"}] : n \in 0..MaxStrLen}
Roles == {"user", "assistant", "system"}
Turns == [role : Roles, content : Strings]
Conversations == {[messages |-> m] : m \in UNION {[1..n -> Turns] : n \in 0..MaxTurns}}
ShortConversations == {c \in Conversations : Len(c.messages) <= 1}
Optional(S) == {None} \cup {Some(x) : x \in S}

\* every combination of present and absent arguments; the long conversations
\* are given alone
EvalInputs ==
    [query : Optional(Strings), response : Optional(Strings),
     conversation : Optional(ShortConversations)]
    \cup [query : {None}, response : {None}, conversation : Optional(Conversations)]

\* my_evaluator(query=..., response=..., conversation=...)
Evaluate ==
    /\ evalOut.kind = "idle"
    /\ \E a \in EvalInputs :
         /\ evalArgs' = a
         /\ evalOut' = simple_evaluator_function(a.query, a.response, a.conversation)
    /\ UNCHANGED nbVars

\* the notebook of the sales analyst is not run
InitIdleNotebook ==
    /\ InitNotebook
    /\ env = [n \in {"PROJECT_CONNECTION_STRING", "AZURE_OPENAI_DEPLOYMENT"} |-> "<None>"]
    /\ localDir = {}
    /\ cloudFiles = {}

InitE == InitIdleNotebook /\ InitEval

NextEval == Evaluate

SpecEval == InitE /\ [][NextEval]_vars


---------------------------------------------------------------------------
(* Properties of agent-sales-analyst.ipynb *)

\* the positions of the log holding a call of `op`
CallsOf(op) == {i \in 1..Len(log) : log[i].op = op}
\* the ids of what the run's successful calls of `op` created
CreatedBy(op) == {log[i].res : i \in {j \in CallsOf(op) : log[j].ok}}
CloudFileIds == {c.id : c \in cloudFiles}
\* both variables are set and non-empty
BothSet == \A n \in DOMAIN env : env[n] # "<None>" /\ env[n] # ""

\* C1: once every cell has run to completion, nothing the run created is left
\* in the project: no uploaded file, no vector store, no agent, no thread.
C1_TearDownComplete ==
    pc = "done" =>
        /\ CreatedBy("upload_file_and_poll") \cap CloudFileIds = {}
        /\ CreatedBy("create_vector_store_and_poll") \cap {v.id : v \in cloudVectorStores} = {}
        /\ CreatedBy("create_agent") \cap cloudAgents = {}
        /\ CreatedBy("create_thread") \cap cloudThreads = {}

\* C2: when a Markdown file is about to be uploaded no cloud file carries its
\* name, and when the upload step has finished the project holds exactly one
\* cloud file named as each local Markdown file, the one the step uploaded.
C2_UploadReplacesCopies ==
    /\ (pc = "upload_loop" /\ cur # NoFile /\ pending = {})
          => ~\E c \in cloudFiles : c.filename = cur
    /\ pc = "vector_store" =>
          \A f \in {g \in localDir : EndsWithMd(g)} :
              LET copies == {c \in cloudFiles : c.filename = f}
              IN  /\ Cardinality(copies) = 1
                  /\ \A c \in copies : c.id \in Range(uploaded_file_ids)

\* C2's case: the upload step has finished after deleting two older copies
C2_Witness ==
    /\ pc = "vector_store"
    /\ Len(uploaded_file_ids) >= 1
    /\ Cardinality({i \in CallsOf("delete_file") : log[i].ok}) >= 2

\* the file-deletion loop of the clean-up has run to its end
FileLoopRan == pc = "delete_agent" \/ CallsOf("list_agents") # {}

\* C3: every file the run uploaded has its id in uploaded_file_ids, and once
\* the file-deletion loop has run delete_file has been called exactly once for
\* each of these ids and none of the files is left.
C3_UploadedFilesDeleted ==
    /\ CreatedBy("upload_file_and_poll") \subseteq Range(uploaded_file_ids)
    /\ FileLoopRan =>
          \A id \in Range(uploaded_file_ids) :
              /\ Cardinality({i \in CallsOf("delete_file") : log[i].id = id}) = 1
              /\ id \notin CloudFileIds

\* C3's case: the loop has deleted two uploaded files
C3_Witness ==
    /\ pc = "done"
    /\ Cardinality(CreatedBy("upload_file_and_poll")) >= 2

\* C8 (the csv and the jsonl dataset give the same per-row results) is not
\* stated here: the datasets are read by the SDK's evaluate(), and what is left,
\* that simple_evaluator_function's result depends on its arguments alone, is
\* true of any operator.

\* C9: the check raises EnvironmentError when either variable is unset or
\* empty, execution goes past it only when both are set and non-empty, and no
\* remote call is made or client created before the check has passed.
C9_EnvironmentCheck ==
    /\ (pc # "env_check" /\ ~BothSet) => (pc = "error" /\ exc = "EnvironmentError")
    /\ (pc # "env_check" /\ exc # "EnvironmentError") => BothSet
    /\ (pc = "env_check" \/ exc = "EnvironmentError")
          => (log = <<>> /\ ~Bound("project_client") /\ ~Bound("agent_client"))

\* C9's case: the deployment name is set but empty, and the check has raised
C9_Witness ==
    /\ pc = "error" /\ exc = "EnvironmentError"
    /\ env["PROJECT_CONNECTION_STRING"] = "value"
    /\ env["AZURE_OPENAI_DEPLOYMENT"] = ""

\* the methods the notebook calls in one place, outside any loop
OnceOps == {"create_agent", "create_thread", "create_message", "create_and_process_run",
            "create_vector_store_and_poll", "delete_vector_store"}
SameCall(a, b) == a.op = b.op /\ a.file = b.file /\ a.id = b.id

\* C10: in one execution each of the six methods is called at most once,
\* upload_file_and_poll at most once per local file, and no call that failed
\* is ever issued again.
C10_NoRetry ==
    /\ \A op \in OnceOps : Cardinality(CallsOf(op)) <= 1
    /\ \A i, j \in CallsOf("upload_file_and_poll") : log[i].file = log[j].file => i = j
    /\ \A i, j \in 1..Len(log) : (i < j /\ ~log[i].ok) => ~SameCall(log[i], log[j])

\* C10's case: create_agent failed and the execution went on to later calls
C10_Witness ==
    /\ \E i \in CallsOf("create_agent") : ~log[i].ok
    /\ CallsOf("create_thread") # {}
    /\ pc = "run_status"


---------------------------------------------------------------------------
(* Properties of the evaluator *)

Called == evalOut.kind # "idle"
PairGiven ==
    Called /\ evalArgs.query # None /\ evalArgs.response # None /\ evalArgs.conversation = None
ConversationGiven ==
    Called /\ evalArgs.query = None /\ evalArgs.response = None /\ evalArgs.conversation # None

\* f is the quotient len(q) / len(r)
IsRatio(f, q, r) == f.den > 0 /\ f.num * Len(r) = Len(q) * f.den

\* C4: for a query and a non-empty response given without a conversation the
\* evaluator returns a dict whose only key is "result", and result is the
\* length of the query divided by the length of the response.
C4_PairRatio ==
    (PairGiven /\ Len(Get(evalArgs.response)) > 0) =>
        /\ evalOut.kind = "return"
        /\ DOMAIN evalOut.value = {"result"}
        /\ IsRatio(evalOut.value.result, Get(evalArgs.query), Get(evalArgs.response))

\* C4's case: a query of length 1 and a response of length 2 have been evaluated
C4_Witness ==
    /\ PairGiven /\ evalOut.kind = "return"
    /\ Len(Get(evalArgs.query)) = 1 /\ Len(Get(evalArgs.response)) = 2

\* the conversation's queries and responses, read off its turns: the i-th
\* query-response pair is the i-th user turn with the i-th turn of another role
QueriesOf(c) == SelectSeq(c.messages, LAMBDA t : t.role = "user")
ResponsesOf(c) == SelectSeq(c.messages, LAMBDA t : t.role # "user")
NumPairs(c) ==
    IF Len(QueriesOf(c)) <= Len(ResponsesOf(c)) THEN Len(QueriesOf(c)) ELSE Len(ResponsesOf(c))

RECURSIVE DenProduct(_)
DenProduct(values) == IF values = <<>> THEN 1 ELSE Head(values).den * DenProduct(Tail(values))
\* the sum of the fractions, times d, for d a multiple of every denominator
RECURSIVE ScaledSum(_, _)
ScaledSum(values, d) ==
    IF values = <<>> THEN 0
    ELSE Head(values).num * (d \div Head(values).den) + ScaledSum(Tail(values), d)
\* m is the arithmetic mean of the fractions: m * count = their sum
IsMean(m, values) ==
    LET d == DenProduct(values)
    IN  m.den > 0 /\ m.num * Len(values) * d = m.den * ScaledSum(values, d)

\* the dict holds one ratio per pair of c, in order, and their mean
HoldsPerTurnAndMean(dict, c) ==
    /\ DOMAIN dict = {"result", "per_turn_results"}
    /\ Len(dict.per_turn_results) = NumPairs(c)
    /\ \A i \in 1..NumPairs(c) :
          IsRatio(dict.per_turn_results[i], QueriesOf(c)[i].content, ResponsesOf(c)[i].content)
    /\ IsMean(dict.result, dict.per_turn_results)

\* C5 as stated: for every conversation given alone the evaluator returns
\* per_turn_results, one ratio per pair in order, and result, their mean.
C5_EveryConversation ==
    ConversationGiven =>
        /\ evalOut.kind = "return"
        /\ HoldsPerTurnAndMean(evalOut.value, Get(evalArgs.conversation))

\* the conversation has a pair, and every paired response is non-empty
HasRatios(c) ==
    /\ NumPairs(c) >= 1
    /\ \A i \in 1..NumPairs(c) : Len(ResponsesOf(c)[i].content) > 0

\* C5, amended: for a conversation given alone that has at least one
\* query-response pair and no empty paired response, the evaluator returns
\* per_turn_results, one ratio per pair in order, and result, their mean.
C5_ConversationWithRatios ==
    (ConversationGiven /\ HasRatios(Get(evalArgs.conversation))) =>
        /\ evalOut.kind = "return"
        /\ HoldsPerTurnAndMean(evalOut.value, Get(evalArgs.conversation))

\* C5's case: a conversation of two pairs with different ratios has been evaluated
C5_Witness ==
    /\ ConversationGiven /\ evalOut.kind = "return"
    /\ Len(evalOut.value.per_turn_results) = 2
    /\ evalOut.value.per_turn_results[1] # evalOut.value.per_turn_results[2]

\* C6: for every combination of arguments other than a conversation alone
\* and a query with a response alone, the evaluator raises ValueError.
C6_OtherCombinationsRaise ==
    (Called /\ ~PairGiven /\ ~ConversationGiven) => evalOut = Raised("ValueError")

\* C6's case: a conversation with a pair in it was given together with a response
C6_Witness ==
    /\ Called /\ evalOut.kind = "raise"
    /\ evalArgs.query = None /\ evalArgs.response # None /\ evalArgs.conversation # None
    /\ Len(Get(evalArgs.response)) > 0

\* the conversation is one user turn and one assistant turn, in either order
OneExchange(c) ==
    /\ Len(c.messages) = 2
    /\ {c.messages[1].role, c.messages[2].role} = {"user", "assistant"}

\* C7: for a conversation of one user turn and one assistant turn the
\* evaluator does what it does for that query and response given directly:
\* the same exception, or the same result with per_turn_results holding it.
C7_OneExchangeAsPair ==
    (ConversationGiven /\ OneExchange(Get(evalArgs.conversation))) =>
        LET c == Get(evalArgs.conversation)
            direct == simple_evaluator_function(Some(QueriesOf(c)[1].content),
                                                Some(ResponsesOf(c)[1].content), None)
        IN  IF direct.kind = "raise" THEN evalOut = direct
            ELSE /\ evalOut.kind = "return"
                 /\ evalOut.value.result = direct.value.result
                 /\ evalOut.value.per_turn_results = <<direct.value.result>>

\* C7's case: a one-exchange conversation with a longer query than response
C7_Witness ==
    /\ ConversationGiven /\ OneExchange(Get(evalArgs.conversation))
    /\ evalOut.kind = "return"
    /\ Len(QueriesOf(Get(evalArgs.conversation))[1].content) = 2
    /\ Len(ResponsesOf(Get(evalArgs.conversation))[1].content) = 1


---------------------------------------------------------------------------
(* Order of the remote calls of agent-sales-analyst.ipynb *)

\* a call of `op` returned before position i of the log
ReturnedBefore(op, i) == \E j \in CallsOf(op) : j < i /\ log[j].ok

\* the vector store is created after every upload, from the uploaded ids
VectorStoreAfterUploads ==
    /\ \A i \in CallsOf("create_vector_store_and_poll") :
          /\ \A j \in CallsOf("upload_file_and_poll") : j < i /\ log[j].ok
          /\ \A f \in {g \in localDir : EndsWithMd(g)} :
                \E j \in CallsOf("upload_file_and_poll") : j < i /\ log[j].file = f
    /\ \A v \in cloudVectorStores :
          v.id \in CreatedBy("create_vector_store_and_poll")
             => v.file_ids = Range(uploaded_file_ids)
\* the agent is created after the vector store
AgentAfterVectorStore ==
    \A i \in CallsOf("create_agent") : ReturnedBefore("create_vector_store_and_poll", i)
\* the run is started after the user message has been added to the thread
RunAfterMessage ==
    \A i \in CallsOf("create_and_process_run") : ReturnedBefore("create_message", i)
\* the messages are listed after create_and_process_run has returned
ListAfterRun ==
    \A i \in CallsOf("list_messages") : ReturnedBefore("create_and_process_run", i)

\* C11: the vector store is created only after every upload has returned and
\* from exactly the ids in uploaded_file_ids, the agent only after the vector
\* store, the run only after the user message has been added to the thread,
\* and the messages are listed only after create_and_process_run has returned.
C11_StrictOrder ==
    /\ VectorStoreAfterUploads
    /\ AgentAfterVectorStore
    /\ RunAfterMessage
    /\ ListAfterRun


---------------------------------------------------------------------------
(* The status check of agent-sales-analyst.ipynb *)

\* the position of the run's call in the log
RunCall == CHOOSE i \in CallsOf("create_and_process_run") : TRUE
\* the calls issued after the run's, as <<method, id argument>>
CallsAfterRun == [k \in 1..(Len(log) - RunCall) |-> <<log[RunCall + k].op, log[RunCall + k].id>>]
\* the calls the cells after the status check issue when none of them fails,
\* whatever the run's status: the listing of the messages, then the clean-up
CallsOfTheRest ==
    <<  <<"list_messages", locals["thread"]>>, <<"delete_vector_store", locals["vector_store"]>> >>
    \o [k \in 1..Len(uploaded_file_ids) |-> <<"delete_file", uploaded_file_ids[k]>>]
    \o << <<"list_agents", 0>>, <<"delete_agent", locals["agent"]>> >>
IsPrefix(s, t) == Len(s) <= Len(t) /\ \A k \in 1..Len(s) : s[k] = t[k]
\* the status check has run on a run that was returned
StatusChecked == Bound("run") /\ pc # "run_status"

\* C12: after the status check "Run failed" has been printed exactly when the
\* returned status is "failed"; the check itself raises nothing (an execution
\* that stops later stops at a failed remote call, at the unbound message or
\* at a missing local file); and the cells after it issue the same calls in
\* the same order whatever the status, all of them once the notebook is done.
C12_FailedRunOnlyPrinted ==
    StatusChecked =>
        /\ ("run_failed" \in printed) <=> (run_status = "failed")
        /\ pc = "error" =>
              \/ exc = "NameError" /\ ~Bound("message") /\ CallsAfterRun = <<>>
              \/ exc = "HttpResponseError" /\ ~log[Len(log)].ok /\ CallsAfterRun # <<>>
              \/ exc = "FileNotFoundError" /\ CallsAfterRun = CallsOfTheRest
        /\ IsPrefix(CallsAfterRun, CallsOfTheRest)
        /\ pc = "done" =>
              /\ CallsAfterRun = CallsOfTheRest
              /\ \A k \in (RunCall + 1)..Len(log) : log[k].ok

\* C12's case: a run came back failed and the notebook has run to its end,
\* deleting an uploaded file on the way
C12_Witness ==
    /\ pc = "done" /\ Bound("run") /\ run_status = "failed"
    /\ "run_failed" \in printed
    /\ Len(uploaded_file_ids) >= 1

===========================================================================
